---- MODULE Spec2Model ----
(***************************************************************************)
(* Model of src/src/components/OcrAgent.tsx: the recognition job           *)
(* orchestrator (handleFiles and the callbacks of the recognition tasks),  *)
(* the row parser (parseTextToRows) and the row accumulator (handleAppend, *)
(* clearAll, "Clear rows").                                                *)
(*                                                                         *)
(* Strings that the parser inspects are sequences of one-character         *)
(* strings.  An optional value (a field that may be undefined) is the      *)
(* empty sequence when absent and a one-element sequence when present.     *)
(* A progress value k stands for the real number k / ProgressScale, so     *)
(* ProgressScale itself stands for 1.                                      *)
(* Array positions keep the 0-based values of the source: the record at    *)
(* JavaScript index i is extracts[i + 1].                                  *)
(***************************************************************************)
EXTENDS Integers, Sequences, FiniteSets, TLC

\* ---------------------------------------------------------------- bounds
MaxJobs == 2          \* recognition tasks started in one run
MaxFiles == 2         \* files of one submission
MaxRows == 3          \* rows the table may hold
ProgressScale == 2    \* progress values are 0/2, 1/2, 2/2
MaxTextLen == 3       \* characters of a recognized text given to the parser

SampleLines == 10     \* lines.slice(0, 10)
PreviewRows == 10     \* parseTextToRows(...).slice(0, 10)

None == << >>
Some(x) == << x >>

\* ---------------------------------------------------------------- parser
IsWs(c) == c \in {" ", "\t", "\n", "\r"}

\* number of whitespace characters of s that start at offset q
RECURSIVE WsRun(_, _)
WsRun(s, q) ==
  IF q < Len(s) /\ IsWs(s[q + 1]) THEN 1 + WsRun(s, q + 1) ELSE 0

\* String.prototype.trim
trim(s) ==
  LET keep == {i \in 1..Len(s) : ~IsWs(s[i])}
  IN IF keep = {} THEN << >>
     ELSE SubSeq(s, CHOOSE i \in keep : \A j \in keep : i <= j,
                    CHOOSE i \in keep : \A j \in keep : j <= i)

\* the regular expressions of the source, named by their text
NewlineRe == "\\r?\\n"
CommaRe == "\\s*,\\s*"
TabRe == "\\t"
PipeRe == "\\s*\\|\\s*"
SpacesRe == "\\s{2,}"
\* the separator of columnsInput.split(","), a string and not a pattern
LiteralComma == "<,>"
\* the custom patterns a user may type: the empty pattern (the initial
\* value of the state) and a pattern that does not compile
CustomPatterns == {"", "("}
Compiles(pattern) == pattern # "("

\* length of the match of re that starts at offset q of s, -1 when none
MatchLen(re, s, q) ==
  CASE re = NewlineRe ->
         IF q + 1 < Len(s) /\ s[q + 1] = "\r" /\ s[q + 2] = "\n" THEN 2
         ELSE IF q < Len(s) /\ s[q + 1] = "\n" THEN 1 ELSE -1
    [] re = CommaRe ->
         LET w == WsRun(s, q)
         IN IF q + w < Len(s) /\ s[q + w + 1] = ","
            THEN w + 1 + WsRun(s, q + w + 1) ELSE -1
    [] re = PipeRe ->
         LET w == WsRun(s, q)
         IN IF q + w < Len(s) /\ s[q + w + 1] = "|"
            THEN w + 1 + WsRun(s, q + w + 1) ELSE -1
    [] re = TabRe -> IF q < Len(s) /\ s[q + 1] = "\t" THEN 1 ELSE -1
    [] re = SpacesRe -> IF WsRun(s, q) >= 2 THEN WsRun(s, q) ELSE -1
    [] re = "" -> 0
    [] re = LiteralComma -> IF q < Len(s) /\ s[q + 1] = "," THEN 1 ELSE -1

\* String.prototype.split(re): p is the end of the last separator, q the
\* offset tried next
RECURSIVE SplitFrom(_, _, _, _, _)
SplitFrom(re, s, p, q, acc) ==
  IF q >= Len(s) THEN Append(acc, SubSeq(s, p + 1, Len(s)))
  ELSE LET n == MatchLen(re, s, q)
       IN IF n < 0 \/ q + n = p
          THEN SplitFrom(re, s, p, q + 1, acc)
          ELSE SplitFrom(re, s, q + n, q + n, Append(acc, SubSeq(s, p + 1, q)))

split(re, s) ==
  IF Len(s) = 0
  THEN IF MatchLen(re, s, 0) >= 0 THEN << >> ELSE << s >>
  ELSE SplitFrom(re, s, 0, 0, << >>)

\* RegExp.prototype.test for a pattern that is one literal character
test(c, s) == \E i \in 1..Len(s) : s[i] = c

RECURSIVE join(_, _)
join(ls, sep) ==
  IF Len(ls) = 0 THEN << >>
  ELSE IF Len(ls) = 1 THEN ls[1]
  ELSE ls[1] \o sep \o join(Tail(ls), sep)

Map(f(_), s) == [i \in 1..Len(s) |-> f(s[i])]

RECURSIVE Filter(_, _)
Filter(keep(_), s) ==
  IF Len(s) = 0 THEN << >>
  ELSE IF keep(Head(s)) THEN << Head(s) >> \o Filter(keep, Tail(s))
  ELSE Filter(keep, Tail(s))

\* a faulty variant: the empty lines are kept
lines_noFilter(text) == Map(trim, split(NewlineRe, text))

\* text.split(/\r?\n/).map(trim).filter(non-empty)
lines(text) ==
  LET nonEmpty(l) == Len(l) > 0
  IN Filter(nonEmpty, Map(trim, split(NewlineRe, text)))

\* a faulty variant: the comma is looked for before the pipe
autoGuess_commaFirst(ls) ==
  LET sample == join(SubSeq(ls, 1, IF Len(ls) < SampleLines THEN Len(ls) ELSE SampleLines), << "\n" >>)
  IN IF test(",", sample) THEN CommaRe
     ELSE IF test("|", sample) THEN PipeRe
     ELSE IF test("\t", sample) THEN TabRe
     ELSE SpacesRe

\* the regular expression autoGuess chooses
autoGuess(ls) ==
  LET sample == join(SubSeq(ls, 1, IF Len(ls) < SampleLines THEN Len(ls) ELSE SampleLines), << "\n" >>)
  IN IF test("|", sample) THEN PipeRe
     ELSE IF test(",", sample) THEN CommaRe
     ELSE IF test("\t", sample) THEN TabRe
     ELSE SpacesRe

\* a faulty variant: a pattern that does not compile falls back to the
\* automatic choice
splitter_fallbackAuto(ls, delim, pattern) ==
  CASE delim = "comma" -> CommaRe
    [] delim = "tab" -> TabRe
    [] delim = "pipe" -> PipeRe
    [] delim = "spaces" -> SpacesRe
    [] delim = "custom" -> IF Compiles(pattern) THEN pattern ELSE autoGuess(ls)
    [] OTHER -> autoGuess(ls)

\* the regular expression of the splitter the switch selects
splitter(ls, delim, pattern) ==
  CASE delim = "comma" -> CommaRe
    [] delim = "tab" -> TabRe
    [] delim = "pipe" -> PipeRe
    [] delim = "spaces" -> SpacesRe
    [] delim = "custom" -> IF Compiles(pattern) THEN pattern ELSE SpacesRe
    [] OTHER -> autoGuess(ls)

parseTextToRows(text, delim, pattern) ==
  LET ls == lines(text)
      re == splitter(ls, delim, pattern)
      cells(l) == Map(trim, split(re, l))
  IN Map(cells, ls)

\* ---------------------------------------------------------------- inputs
FileNames == {"a.png", "b.png"}
\* the file lists a selection or a drop may deliver, the empty one included
FileLists == UNION {[1..n -> FileNames] : n \in 0..MaxFiles}
\* the texts the OCR engine may resolve to
EngineTexts == { << "a", ",", "b" >>, << "c", "\n", "d" >> }
\* data.text: a text or nothing
EngineData == {None} \cup {Some(t) : t \in EngineTexts}
\* the rejection value's message: none, or the empty message of new Error()
EngineErrors == {None, Some("")}
ProgressValues == 0..ProgressScale
\* the notifications handed to the logger: the phase and, maybe, a number
LoggerMessages ==
  [status : {"recognizing text", "loading language traineddata"},
   progress : {None} \cup {Some(p) : p \in ProgressValues}]
Delimiters == {"auto", "comma", "tab", "pipe", "spaces", "custom"}
\* useState<string>("Item, Quantity, Price")
InitialColumns ==
  << "I", "t", "e", "m", ",", " ", "Q", "u", "a", "n", "t", "i", "t", "y", ",",
     " ", "P", "r", "i", "c", "e" >>
\* what the columns field may hold: the initial labels, or nothing
ColumnInputs == {InitialColumns, << >>}

\* ---------------------------------------------------------------- state
VARIABLES
  extracts,       \* useState<ExtractResult[]>: the job records
  rows,           \* useState<Row[]>: the accumulated table
  delimiter,      \* useState: the delimiter policy
  customPattern,  \* useState: the custom pattern
  columnsInput,   \* useState: the comma separated column labels
  isExporting,    \* useState: an export is under way
  tasks,          \* the recognition tasks started so far, by job number:
                  \* the localIndex each closure captured, whether its
                  \* promise has settled, the last progress it reported
  jobOf           \* jobOf[i + 1] is the number of the job whose submission
                  \* created the record at index i (history, not in the code)

vars == << extracts, rows, delimiter, customPattern, columnsInput, isExporting, tasks, jobOf >>

Init ==
  /\ extracts = << >>
  /\ rows = << >>
  /\ delimiter = "auto"
  /\ customPattern = ""
  /\ columnsInput = InitialColumns
  /\ isExporting = FALSE
  /\ tasks = << >>
  /\ jobOf = << >>

\* ---------------------------------------------------------------- orchestrator
\* a faulty variant: the record starts in the unused status idle
initialRecord_idle(fileName) ==
  [fileName |-> fileName, text |-> << >>, progress |-> 0,
   status |-> "idle", error |-> None]

\* the record handleFiles creates for a file
initialRecord(fileName) ==
  [fileName |-> fileName, text |-> << >>, progress |-> 0,
   status |-> "recognizing", error |-> None]

\* const localIndex = extracts.length + index, with the length the closure
\* of handleFiles holds: the one of the last render, which follows every
\* handler that changed the list
localIndex(length, index) == length + index

\* if (next[localIndex]) ...: update the record at that index, when there is one
updateAt(list, li, f(_)) ==
  IF li + 1 \in DOMAIN list THEN [list EXCEPT ![li + 1] = f(@)] ELSE list

\* a faulty variant: the phase of the notification is not looked at
isRecognizing_anyPhase(m) == m.progress # None

\* the logger's condition
isRecognizing(m) == m.status = "recognizing text" /\ m.progress # None

progressUpdate(rec, m) == [rec EXCEPT !.progress = m.progress[1]]

\* data.text ?? ""
textOf(data) == IF data = None THEN << >> ELSE data[1]

\* a faulty variant: the completion leaves the progress as it was
doneUpdate_keepProgress(rec, data) ==
  [rec EXCEPT !.text = textOf(data), !.status = "done"]

doneUpdate(rec, data) ==
  [rec EXCEPT !.text = textOf(data), !.progress = ProgressScale, !.status = "done"]

\* (err as Error)?.message ?? "OCR failed"
messageOf(err) == IF err = None THEN "OCR failed" ELSE err[1]

\* a faulty variant: the failure leaves the status as it was
errorUpdate_noStatus(rec, err) ==
  [rec EXCEPT !.error = Some(messageOf(err))]

errorUpdate(rec, err) ==
  [rec EXCEPT !.status = "error", !.error = Some(messageOf(err))]

handleFiles(files) ==
  IF Len(files) = 0 THEN UNCHANGED vars
  ELSE
    /\ extracts' = extracts \o Map(initialRecord, files)
    /\ tasks' = tasks \o
         [index \in 1..Len(files) |->
            [localIndex |-> localIndex(Len(extracts), index - 1),
             settled |-> FALSE, lastProgress |-> 0]]
    /\ jobOf' = jobOf \o [index \in 1..Len(files) |-> Len(tasks) + index]
    /\ UNCHANGED << rows, delimiter, customPattern, columnsInput, isExporting >>

\* the logger callback of task t receives notification m; a task reports
\* its recognition progress in non-decreasing order, before it settles
logger(t, m) ==
  /\ ~tasks[t].settled
  /\ isRecognizing(m) => m.progress[1] >= tasks[t].lastProgress
  /\ IF isRecognizing(m)
     THEN /\ extracts' = LET set(rec) == progressUpdate(rec, m)
                         IN updateAt(extracts, tasks[t].localIndex, set)
          /\ tasks' = [tasks EXCEPT ![t].lastProgress = m.progress[1]]
     ELSE UNCHANGED << extracts, tasks >>
  /\ UNCHANGED << rows, delimiter, customPattern, jobOf, columnsInput, isExporting >>

\* the promise of task t resolves with data (a settled task reports nothing
\* more: its lastProgress is set to the top)
resolved(t, data) ==
  /\ ~tasks[t].settled
  /\ extracts' = LET set(rec) == doneUpdate(rec, data)
                 IN updateAt(extracts, tasks[t].localIndex, set)
  /\ tasks' = [tasks EXCEPT ![t].settled = TRUE, ![t].lastProgress = ProgressScale]
  /\ UNCHANGED << rows, delimiter, customPattern, jobOf, columnsInput, isExporting >>

\* the promise of task t rejects with err
rejected(t, err) ==
  /\ ~tasks[t].settled
  /\ extracts' = LET set(rec) == errorUpdate(rec, err)
                 IN updateAt(extracts, tasks[t].localIndex, set)
  /\ tasks' = [tasks EXCEPT ![t].settled = TRUE, ![t].lastProgress = ProgressScale]
  /\ UNCHANGED << rows, delimiter, customPattern, jobOf, columnsInput, isExporting >>

clearAll ==
  /\ extracts' = << >>
  /\ rows' = << >>
  /\ jobOf' = << >>
  /\ UNCHANGED << delimiter, customPattern, tasks, columnsInput, isExporting >>

\* ---------------------------------------------------------------- accumulator
\* a faulty variant: the later batches come first
RECURSIVE flat_reversed(_)
flat_reversed(blocks) ==
  IF Len(blocks) = 0 THEN << >> ELSE flat_reversed(Tail(blocks)) \o Head(blocks)

\* Array.prototype.flat
RECURSIVE flat(_)
flat(blocks) == IF Len(blocks) = 0 THEN << >> ELSE Head(blocks) \o flat(Tail(blocks))

\* a faulty variant: the filter lets failed jobs through
isAppendable_notRecognizing(x) == x.status # "recognizing" /\ Len(trim(x.text)) > 0

\* the filter of handleAppend
isAppendable(x) == x.status = "done" /\ Len(trim(x.text)) > 0

parsedBlocks(list, delim, pattern) ==
  LET parse(x) == parseTextToRows(x.text, delim, pattern)
  IN Map(parse, Filter(isAppendable, list))

newRows(list, delim, pattern) == flat(parsedBlocks(list, delim, pattern))

handleAppend ==
  /\ rows' = rows \o newRows(extracts, delimiter, customPattern)
  /\ UNCHANGED << extracts, delimiter, customPattern, tasks, jobOf, columnsInput, isExporting >>

\* a faulty variant: clearing the rows resets the columns field too
clearRows_andColumns ==
  /\ Len(rows) > 0
  /\ rows' = << >>
  /\ columnsInput' = << >>
  /\ UNCHANGED << extracts, delimiter, customPattern, tasks, jobOf, isExporting >>

\* the "Clear rows" button, disabled while the table is empty
clearRows ==
  /\ Len(rows) > 0
  /\ rows' = << >>
  /\ UNCHANGED << extracts, delimiter, customPattern, tasks, jobOf, columnsInput, isExporting >>

setDelimiter(d) ==
  /\ delimiter' = d
  /\ UNCHANGED << extracts, rows, customPattern, tasks, jobOf, columnsInput, isExporting >>

\* the pattern input is rendered only under the custom policy
setCustomPattern(pattern) ==
  /\ delimiter = "custom"
  /\ customPattern' = pattern
  /\ UNCHANGED << extracts, rows, delimiter, tasks, jobOf, columnsInput, isExporting >>

\* the columns field changes
setColumnsInput(input) ==
  /\ columnsInput' = input
  /\ UNCHANGED << extracts, rows, delimiter, customPattern, isExporting, tasks, jobOf >>

\* useMemo: columnsInput.split(",").map(trim).filter(non-empty)
columns(input) ==
  LET nonEmpty(c) == Len(c) > 0
  IN Filter(nonEmpty, Map(trim, split(LiteralComma, input)))

Max(S) == CHOOSE x \in S : \A y \in S : y <= x

\* Math.max(columns.length, ...rows.map((r) => r.length), 0)
maxCols(cols, table) ==
  Max({Len(cols), 0} \cup {Len(table[i]) : i \in DOMAIN table})

\* the label `col_${i + 1}` of the column at index i + 1
colLabel(n) ==
  << "c", "o", "l", "_" >> \o << << "0", "1", "2", "3", "4", "5", "6", "7", "8", "9" >>[n + 1] >>

\* the header exportCsv builds
header(cols, table) ==
  IF Len(cols) > 0 THEN cols ELSE [i \in 1..maxCols(cols, table) |-> colLabel(i)]

\* the argument exportCsv hands to downloadAsCsv: [header, ...rows]
csvData(cols, table) == << header(cols, table) >> \o table

\* the "Export CSV" button, disabled while the table is empty or an export
\* is under way: the handler hands csvData(columns, rows) to downloadAsCsv
\* and waits for it
exportCsv ==
  /\ Len(rows) > 0
  /\ ~isExporting
  /\ isExporting' = TRUE
  /\ UNCHANGED << extracts, rows, delimiter, customPattern, columnsInput, tasks, jobOf >>

\* downloadAsCsv returns: the finally block of exportCsv
exportSettled ==
  /\ isExporting
  /\ isExporting' = FALSE
  /\ UNCHANGED << extracts, rows, delimiter, customPattern, columnsInput, tasks, jobOf >>

\* ---------------------------------------------------------------- specification
Next ==
  \/ \E files \in FileLists :
       /\ Len(tasks) + Len(files) <= MaxJobs
       /\ handleFiles(files)
  \/ \E t \in DOMAIN tasks, m \in LoggerMessages : logger(t, m)
  \/ \E t \in DOMAIN tasks, data \in EngineData : resolved(t, data)
  \/ \E t \in DOMAIN tasks, err \in EngineErrors : rejected(t, err)
  \/ clearAll
  \/ /\ Len(rows) + Len(newRows(extracts, delimiter, customPattern)) <= MaxRows
     /\ handleAppend
  \/ clearRows
  \/ \E d \in Delimiters : setDelimiter(d)
  \/ \E pattern \in CustomPatterns : setCustomPattern(pattern)
  \/ \E input \in ColumnInputs : setColumnsInput(input)
  \/ exportCsv
  \/ exportSettled

Spec == Init /\ [][Next]_vars

\* The job list on its own: the handlers and callbacks that read or write
\* extracts.  The other actions of Next leave extracts, tasks and jobOf
\* unchanged and none of these reads the table or the delimiter settings,
\* so the job lists that Spec reaches are those that SpecJobs reaches.
NextJobs ==
  \/ \E files \in FileLists :
       /\ Len(tasks) + Len(files) <= MaxJobs
       /\ handleFiles(files)
  \/ \E t \in DOMAIN tasks, m \in LoggerMessages : logger(t, m)
  \/ \E t \in DOMAIN tasks, data \in EngineData : resolved(t, data)
  \/ \E t \in DOMAIN tasks, err \in EngineErrors : rejected(t, err)
  \/ clearAll

SpecJobs == Init /\ [][NextJobs]_vars

\* the promise of task t settles, one way or the other
settle(t) ==
  /\ t \in DOMAIN tasks
  /\ \/ \E data \in EngineData : resolved(t, data)
     \/ \E err \in EngineErrors : rejected(t, err)

\* the engine settles every promise it returned, and the event loop runs
\* every settled promise's continuation
SpecJobsFair == SpecJobs /\ \A t \in 1..MaxJobs : WF_vars(settle(t))

\* The parser on its own: one file is submitted, the engine resolves to any
\* short text, and the text is parsed, for the preview and by an append to
\* the empty table, under every delimiter policy and custom pattern.
Alphabet == {"a", ",", "|", "\t", " ", "\n", "\r"}
\* eleven lines, the delimiter on the last one only
ElevenLines ==
  << "a", "\n", "a", "\n", "a", "\n", "a", "\n", "a", "\n", "a", "\n", "a", "\n",
     "a", "\n", "a", "\n", "a", "\n", "a", "|", "a" >>
\* two cells a column gap apart; two lines with a CRLF between them
GapText == << "a", " ", " ", "a" >>
CrLfText == << "a", "\r", "\n", "," >>
ParserTexts ==
  UNION {[1..n -> Alphabet] : n \in 0..MaxTextLen}
    \cup {ElevenLines, GapText, CrLfText}

\* useMemo: the first rows of the first done text, for the preview table
samplePreview(list, delim, pattern) ==
  LET isDone(x) == x.status = "done"
      done == Filter(isDone, list)
      text == IF Len(done) = 0 THEN << >> ELSE done[1].text
      parsed == parseTextToRows(text, delim, pattern)
  IN IF Len(text) = 0 THEN << >>
     ELSE SubSeq(parsed, 1, IF Len(parsed) < PreviewRows THEN Len(parsed) ELSE PreviewRows)

NextParse ==
  \/ /\ Len(tasks) = 0
     /\ handleFiles(<< "a.png" >>)
  \/ \E t \in DOMAIN tasks, text \in ParserTexts : resolved(t, Some(text))
  \/ \E d \in Delimiters : setDelimiter(d)
  \/ \E pattern \in CustomPatterns : setCustomPattern(pattern)
  \/ /\ rows = << >>
     /\ handleAppend
  \/ clearRows

SpecParse == Init /\ [][NextParse]_vars

TypeOK ==
  /\ Len(extracts) = Len(jobOf)
  /\ \A i \in DOMAIN extracts :
       /\ extracts[i].status \in {"recognizing", "done", "error"}
       /\ extracts[i].fileName \in FileNames
  /\ Len(rows) <= MaxRows
  /\ delimiter \in Delimiters

\* ---------------------------------------------------------------- claims
\* the job whose submission started task t still has its record in the list
inList(t) == \E i \in DOMAIN jobOf : jobOf[i] = t
\* the position of that record
pos(t) == CHOOSE i \in DOMAIN jobOf : jobOf[i] = t
\* the record at position i before a step is the same job's record after it
stays(i) == i \in DOMAIN extracts /\ i \in DOMAIN extracts' /\ jobOf'[i] = jobOf[i]

\* a step that is an event of task t
TaskEvent(t) ==
  \/ \E m \in LoggerMessages : logger(t, m)
  \/ \E data \in EngineData : resolved(t, data)
  \/ \E err \in EngineErrors : rejected(t, err)

\* C1: an event of the task started for job J changes no job record other
\* than the record of J, whatever the interleaving of submissions, clears
\* and events.
C1_EventsReachOwnJobOnly ==
  [][\A t \in DOMAIN tasks :
       TaskEvent(t) =>
         \A i \in DOMAIN extracts : ~(stays(i) /\ extracts'[i] = extracts[i]) => jobOf[i] = t]_vars

\* C2: an event of a task whose job record was removed by clearAll changes
\* no record of the list built by later submissions.
C2_StaleEventsDiscarded ==
  [][\A t \in DOMAIN tasks :
       (TaskEvent(t) /\ ~inList(t)) => extracts' = extracts]_vars

\* C3: a record with status done or error keeps all its fields for as long
\* as it stays in the list.
C3_TerminalIsFinal ==
  [][\A i \in DOMAIN extracts :
       (extracts[i].status \in {"done", "error"} /\ stays(i))
         => extracts'[i] = extracts[i]]_vars

\* C4: when the task of a job in the list resolves, the job's record has
\* status done, progress 1 and the resolved text (the empty text when the
\* engine returns none), whatever progress it had; and a progress
\* notification sets the progress to the reported value, not to a sum.
C4_SuccessEndsDone ==
  [][\A t \in DOMAIN tasks :
       inList(t) =>
         /\ \A data \in EngineData :
              resolved(t, data) =>
                /\ extracts'[pos(t)].status = "done"
                /\ extracts'[pos(t)].progress = ProgressScale
                /\ extracts'[pos(t)].text = (IF data = None THEN << >> ELSE data[1])
         /\ \A m \in LoggerMessages :
              (logger(t, m) /\ m.status = "recognizing text" /\ m.progress # None)
                => extracts'[pos(t)].progress = m.progress[1]]_vars

\* a job's task has resolved with the text "a,b" and the record is done
C4_Witness ==
  \E i \in DOMAIN extracts :
    /\ tasks[jobOf[i]].settled
    /\ tasks[jobOf[i]].localIndex = i - 1
    /\ extracts[i].status = "done"
    /\ extracts[i].progress = ProgressScale
    /\ extracts[i].text = << "a", ",", "b" >>

\* C5: when the task of a job in the list fails, the job's record has
\* status error, a non-empty errorMessage and the empty text, and the
\* record yields no rows to an append.
C5_FailureEndsError ==
  [][\A t \in DOMAIN tasks, err \in EngineErrors :
       (inList(t) /\ rejected(t, err)) =>
         LET r == extracts'[pos(t)]
         IN /\ r.status = "error"
            /\ r.error # None
            /\ r.error[1] # ""
            /\ r.text = << >>
            /\ newRows(<< r >>, delimiter, customPattern) = << >>]_vars

\* C6: every progress lies in [0,1], and the progress of a record that is
\* recognizing before and after a step does not decrease.
C6_ProgressMonotone ==
  /\ [](\A i \in DOMAIN extracts : extracts[i].progress \in 0..ProgressScale)
  /\ [][\A i \in DOMAIN extracts :
          (/\ stays(i)
           /\ extracts[i].status = "recognizing"
           /\ extracts'[i].status = "recognizing")
            => extracts'[i].progress >= extracts[i].progress]_vars

\* C7: a submission appends one record per file, in file order, each
\* recognizing with progress 0 and the empty text; and no step other than
\* clearAll shortens the list or changes the fileName (or the job) at an
\* existing index.
C7_AppendOnly ==
  [][/\ \A files \in FileLists :
          handleFiles(files) =>
            /\ Len(extracts') = Len(extracts) + Len(files)
            /\ SubSeq(extracts', 1, Len(extracts)) = extracts
            /\ \A k \in 1..Len(files) :
                 LET r == extracts'[Len(extracts) + k]
                 IN /\ r.fileName = files[k]
                    /\ r.status = "recognizing"
                    /\ r.progress = 0
                    /\ r.text = << >>
     /\ ~clearAll =>
          /\ Len(extracts') >= Len(extracts)
          /\ \A i \in DOMAIN extracts :
               /\ extracts'[i].fileName = extracts[i].fileName
               /\ jobOf'[i] = jobOf[i]]_vars

\* a submission of two files whose records follow an earlier record
C7_Witness ==
  /\ Len(extracts) = 2
  /\ jobOf = << 1, 2 >>
  /\ extracts[1].fileName = "b.png"
  /\ extracts[2].fileName = "a.png"
  /\ extracts[1].status = "done"
  /\ tasks[2].localIndex = 1
  /\ extracts[2].status = "recognizing"
  /\ extracts[2].progress = 0
  /\ extracts[2].text = << >>

\* C8: an event of a task changes no record other than the record of the
\* task's job; a progress notification changes of that record only the
\* progress; no event changes the table.
C8_EventFrame ==
  [][\A t \in DOMAIN tasks :
       TaskEvent(t) =>
         /\ \A i \in DOMAIN extracts :
              (~inList(t) \/ i # pos(t)) => extracts'[i] = extracts[i]
         /\ \A m \in LoggerMessages :
              (logger(t, m) /\ inList(t)) =>
                extracts'[pos(t)] =
                  [extracts[pos(t)] EXCEPT !.progress = extracts'[pos(t)].progress]
         /\ rows' = rows]_vars

\* C9: a record carries an errorMessage only when its status is error.
C9_ErrorOnlyWhenError ==
  \A i \in DOMAIN extracts :
    extracts[i].error # None => extracts[i].status = "error"

\* the rows of the done jobs of a list, in list order
RECURSIVE DoneRows(_, _, _)
DoneRows(list, delim, pattern) ==
  IF Len(list) = 0 THEN << >>
  ELSE (IF Head(list).status = "done"
        THEN parseTextToRows(Head(list).text, delim, pattern) ELSE << >>)
       \o DoneRows(Tail(list), delim, pattern)

\* C10: an append adds to the table exactly the rows parsed from the jobs
\* that are done, in job-list order, and leaves the job list unchanged.
\* (The rows handleAppend would add are, in every state, the rows of the
\* done jobs; and a step that changes the table to a non-empty one, which
\* only handleAppend takes, appends exactly those rows.)
C10_AppendDoneRows ==
  /\ [](newRows(extracts, delimiter, customPattern)
          = DoneRows(extracts, delimiter, customPattern))
  /\ [][(rows' # rows /\ rows' # << >>) =>
          /\ rows' = rows \o DoneRows(extracts, delimiter, customPattern)
          /\ extracts' = extracts]_vars

\* the first job failed, the second is done with "a,b", and the table
\* holds the one row of the second
C10_Witness ==
  /\ Len(extracts) = 2
  /\ extracts[1].status = "error"
  /\ extracts[2].status = "done"
  /\ extracts[2].text = << "a", ",", "b" >>
  /\ rows = << << << "a" >>, << "b" >> >> >>

\* the number of rows of a sequence of batches
RECURSIVE SumLen(_)
SumLen(blocks) ==
  IF Len(blocks) = 0 THEN 0 ELSE Len(Head(blocks)) + SumLen(Tail(blocks))

\* out holds the rows of the batches, batch after batch, each in its order
InBatchOrder(blocks, out) ==
  /\ Len(out) = SumLen(blocks)
  /\ \A k \in DOMAIN blocks : \A j \in DOMAIN blocks[k] :
       out[SumLen(SubSeq(blocks, 1, k - 1)) + j] = blocks[k][j]

\* C11: an append of N batches lengthens the table by the sum of the batch
\* sizes; the old rows stay, unchanged and in order, as a prefix, and the
\* new rows follow batch by batch, each batch in its own order.
C11_AppendBatches ==
  /\ [](InBatchOrder(parsedBlocks(extracts, delimiter, customPattern),
                     newRows(extracts, delimiter, customPattern)))
  /\ [][(rows' # rows /\ rows' # << >>) =>
          LET blocks == parsedBlocks(extracts, delimiter, customPattern)
          IN /\ Len(rows') = Len(rows) + SumLen(blocks)
             /\ SubSeq(rows', 1, Len(rows)) = rows
             /\ InBatchOrder(blocks, SubSeq(rows', Len(rows) + 1, Len(rows')))]_vars

\* two done jobs, "a,b" and then "c\nd", were appended to a table that
\* held the row of the first already
C11_Witness ==
  /\ Len(extracts) = 2
  /\ extracts[1].status = "done" /\ extracts[1].text = << "a", ",", "b" >>
  /\ extracts[2].status = "done" /\ extracts[2].text = << "c", "\n", "d" >>
  /\ rows = << << << "a" >>, << "b" >> >>, << << "c" >> >>, << << "d" >> >> >>

\* C12: clearing the rows empties the rows and leaves the columns as they
\* are; setting the columns replaces the labels and leaves the rows as
\* they are; no event of a recognition task changes rows or columns.
C12_TableFrame ==
  [][/\ clearRows =>
          /\ rows' = << >>
          /\ columnsInput' = columnsInput
          /\ extracts' = extracts
     /\ clearAll => (rows' = << >> /\ columnsInput' = columnsInput)
     /\ \A input \in ColumnInputs :
          setColumnsInput(input) =>
            /\ columnsInput' = input
            /\ rows' = rows
     /\ (rows' # rows \/ columnsInput' # columnsInput) =>
          \A t \in DOMAIN tasks : ~TaskEvent(t)]_vars

\* the rows were cleared while an export was under way (an export starts
\* only from a non-empty table), and the three initial labels are in place
C12_Witness ==
  /\ isExporting
  /\ rows = << >>
  /\ Len(columns(columnsInput)) = 3
  /\ \E i \in DOMAIN extracts : extracts[i].status = "done"

\* C17: rows enter the table exactly as parsed; and the header and every
\* row that exportCsv hands to downloadAsCsv have the width
\* max(len(columns), max over rows of len(row)).
C17_ExportPadded ==
  [][/\ (rows' # rows /\ rows' # << >>) =>
          rows' = rows \o DoneRows(extracts, delimiter, customPattern)
     /\ exportCsv =>
          LET cols == columns(columnsInput)
              data == csvData(cols, rows)
              width == Max({Len(cols)} \cup {Len(rows[i]) : i \in DOMAIN rows})
          IN \A i \in DOMAIN data : Len(data[i]) = width]_vars

\* the texts of the done jobs
DoneTexts == {extracts[i].text : i \in {j \in DOMAIN extracts : extracts[j].status = "done"}}

\* the policy the priority pipe > comma > tab > spaces selects from the
\* first ten of the lines ls
PriorityPolicy(ls) ==
  LET sample == {ls[i] : i \in {j \in DOMAIN ls : j <= 10}}
      has(c) == \E l \in sample : \E i \in DOMAIN l : l[i] = c
  IN IF has("|") THEN "pipe"
     ELSE IF has(",") THEN "comma"
     ELSE IF has("\t") THEN "tab"
     ELSE "spaces"

\* C13: under the auto policy the result on a text is the result of the
\* explicit policy that the priority pipe > comma > tab > spaces selects
\* from the first 10 non-empty lines of the text.
C13_AutoIsExplicit ==
  /\ [](\A text \in DoneTexts :
       parseTextToRows(text, "auto", customPattern)
         = parseTextToRows(text, PriorityPolicy(lines(text)), customPattern))
  /\ [][(handleAppend /\ delimiter = "auto") =>
         \A text \in DoneTexts :
           rows' = rows \o parseTextToRows(text, PriorityPolicy(lines(text)), customPattern)]_vars

\* a text with a comma and then a pipe was appended under auto: split at
\* the pipe only
C13_Witness ==
  /\ delimiter = "auto"
  /\ DoneTexts = { << "a", ",", "|" >> }
  /\ rows = << << << "a", "," >>, << >> >> >>

\* C14: under the custom policy with a pattern that does not compile, the
\* result on every text is the result of the spaces policy.
C14_InvalidCustomIsSpaces ==
  /\ [](\A text \in DoneTexts :
         parseTextToRows(text, "custom", "(") = parseTextToRows(text, "spaces", "("))
  /\ [][(handleAppend /\ delimiter = "custom" /\ customPattern = "(") =>
         \A text \in DoneTexts :
           rows' = rows \o parseTextToRows(text, "spaces", "")]_vars

\* "a  a" was appended under the custom policy with the pattern "(":
\* split at the gap
C14_Witness ==
  /\ delimiter = "custom"
  /\ customPattern = "("
  /\ DoneTexts = { GapText }
  /\ rows = << << << "a" >>, << "a" >> >> >>

\* the pieces of s between the characters of the set eols
RECURSIVE Pieces(_, _)
Pieces(s, eols) ==
  IF \A i \in DOMAIN s : s[i] \notin eols THEN << s >>
  ELSE LET k == CHOOSE i \in DOMAIN s :
                  s[i] \in eols /\ \A j \in 1..(i - 1) : s[j] \notin eols
       IN << SubSeq(s, 1, k - 1) >> \o Pieces(SubSeq(s, k + 1, Len(s)), eols)

\* the pieces that are not blank
RECURSIVE NonBlank(_)
NonBlank(ps) ==
  IF Len(ps) = 0 THEN << >>
  ELSE (IF \A i \in DOMAIN ps[1] : IsWs(ps[1][i]) THEN << >> ELSE << ps[1] >>)
       \o NonBlank(Tail(ps))

\* the result has one row per non-blank line of ls, in order: row i holds
\* the trimmed cells of the trimmed line i
RowPerLine(text, ls, delim, pattern) ==
  LET result == parseTextToRows(text, delim, pattern)
      re == splitter(lines(text), delim, pattern)
  IN /\ Len(result) = Len(ls)
     /\ \A i \in DOMAIN ls :
          /\ i \in DOMAIN result
          /\ result[i] = [k \in DOMAIN split(re, trim(ls[i])) |-> trim(split(re, trim(ls[i]))[k])]

\* C15: the lines end at LF, CRLF and at a lone CR; each is trimmed, the
\* blank ones are discarded, and the result has one row per remaining line,
\* in order, under every policy.
C15_AnyLineEnding ==
  \A text \in DoneTexts :
    RowPerLine(text, NonBlank(Pieces(text, {"\n", "\r"})), delimiter, customPattern)

\* C16: a text that is empty or holds only whitespace parses to zero rows
\* under every policy and pattern, also for the preview.
C16_BlankIsEmpty ==
  \A text \in DoneTexts :
    (\A i \in DOMAIN text : IsWs(text[i])) =>
      /\ \A d \in Delimiters, pattern \in CustomPatterns :
           parseTextToRows(text, d, pattern) = << >>
      /\ samplePreview(extracts, delimiter, customPattern) = << >>

\* the engine resolved to whitespace only, and the policy is custom with
\* the empty pattern
C16_Witness ==
  /\ DoneTexts = { << " ", "\n", "\t" >> }
  /\ delimiter = "custom"
  /\ customPattern = ""
  /\ samplePreview(extracts, delimiter, customPattern) = << >>

\* C18: a notification whose phase is not the recognition phase leaves
\* every job record and the table as they were.
C18_OtherPhasesIgnored ==
  [][\A t \in DOMAIN tasks, m \in LoggerMessages :
       (m.status # "recognizing text" /\ logger(t, m)) =>
         (extracts' = extracts /\ rows' = rows)]_vars

\* a job is half recognized and its task still runs: a notification of
\* another phase with a progress in it can arrive
C18_Witness ==
  \E t \in DOMAIN tasks :
    /\ ~tasks[t].settled
    /\ inList(t)
    /\ tasks[t].localIndex + 1 = pos(t)
    /\ extracts[pos(t)].status = "recognizing"
    /\ extracts[pos(t)].progress = 1
    /\ \E m \in LoggerMessages :
         m.status # "recognizing text" /\ m.progress = Some(ProgressScale)

\* C19: a job record with status done has progress 1.
C19_DoneIsComplete ==
  \A i \in DOMAIN extracts :
    extracts[i].status = "done" => extracts[i].progress = ProgressScale

\* C20: when every task settles, every job record that is in the list is
\* later done, failed or cleared.
C20_EveryJobEnds ==
  \A j \in 1..MaxJobs :
    inList(j) ~> (~inList(j) \/ extracts[pos(j)].status \in {"done", "error"})

\* the second job of the list failed while the first is still recognized
C20_Witness ==
  /\ Len(extracts) = 2
  /\ extracts[1].status = "recognizing"
  /\ extracts[2].status = "error"
  /\ tasks[jobOf[2]].settled

====
